---- MODULE Spec2Model ----
(***************************************************************************)
(* Entity extraction and cross-document entity linking of openfoia         *)
(* (src/openfoia/pipeline/extract.py): the paragraph chunker, the per-chunk *)
(* response conversion of EntityExtractor and the canonical resolution of   *)
(* EntityLinker.  Text is a sequence of one-character strings, so that      *)
(* lower(), upper(), strip(), split(), join() and `in` are computed.        *)
(***************************************************************************)
EXTENDS Integers, Sequences, FiniteSets, TLC

VARIABLES
    \* _chunk_text applied to one input
    ch_text, ch_max, ch_chunks, ch_done,
    \* EntityExtractor.extract in progress
    ex_pc, ex_text, ex_pages, ex_chunks, ex_i, ex_response, ex_chunk_result,
    all_entities, all_relationships, backend_calls, ex_return,
    \* the EntityExtractor: its provider and its cached client
    ex_provider, ex_client,
    \* EntityLinker and the mention objects handed to it
    canonical_entities, uuid_count, metadata, cur_doc, nprocessed,
    \* what the calls of _find_or_create_canonical did: the last one, and all
    last, resolved,
    \* _merge_entities applied to a list: the list as given, the list with
    \* its objects as the calls leave them, the list returned, the list
    \* returned by the call before, and which call was made last
    mg_given, mg_entities, mg_merged, mg_before, mg_call,
    \* EntityLinker.links, the number of link_entities calls and the
    \* arguments of the last one
    links, link_calls, link_args,
    \* the dict export_graph returned last: whether there is one, its
    \* 'entities' list and its 'links' list as they are now, and both as they
    \* were when the call returned
    graph_taken, graph_entities, graph_links, graph_at_call,
    \* two threads that call _find_or_create_canonical on one linker: where
    \* each is, the mention it was given, the items its dict iterator has
    \* given out, the size of the dict when the iterator was made, the id
    \* returned
    th_pc, th_entity, th_k, th_size, th_ret,
    \* the canonicals the threads created, whether a call was entered while
    \* another was under way, whether a scan ran out while the other thread
    \* stood between its scan and its insert
    th_created, overlapped, both_scanned,
    \* RedactionDetector.analyze applied to one text
    rd_text, rd_result, rd_done,
    \* add_entities applied to one list of mentions in two orders, each on a
    \* fresh EntityLinker: the two lists and what the two linkers hold after
    od_orders, od_results, od_done

chunkVars == <<ch_text, ch_max, ch_chunks, ch_done>>
extractVars == <<ex_pc, ex_text, ex_pages, ex_chunks, ex_i, ex_response,
                 ex_chunk_result, all_entities, all_relationships,
                 backend_calls, ex_return, ex_provider, ex_client>>
linkerVars == <<canonical_entities, uuid_count, metadata, cur_doc, nprocessed,
                last, resolved>>
mergeVars == <<mg_given, mg_entities, mg_merged, mg_before, mg_call>>
graphVars == <<links, link_calls, link_args, graph_taken, graph_entities,
               graph_links, graph_at_call>>
threadVars == <<th_pc, th_entity, th_k, th_size, th_ret, th_created,
                overlapped, both_scanned>>
redactVars == <<rd_text, rd_result, rd_done>>
orderVars == <<od_orders, od_results, od_done>>
vars == <<chunkVars, extractVars, linkerVars, mergeVars, graphVars,
          threadVars, redactVars, orderVars>>

\* what an operation of one object leaves alone: the other objects
notChunk ==
    <<extractVars, linkerVars, mergeVars, graphVars, threadVars, redactVars,
      orderVars>>
notExtract ==
    <<chunkVars, linkerVars, mergeVars, graphVars, threadVars, redactVars,
      orderVars>>
notLinker ==
    <<chunkVars, extractVars, mergeVars, graphVars, threadVars, redactVars,
      orderVars>>
notMerge ==
    <<chunkVars, extractVars, linkerVars, graphVars, threadVars, redactVars,
      orderVars>>
notGraph ==
    <<chunkVars, extractVars, mergeVars, threadVars, redactVars, orderVars>>
notThread ==
    <<chunkVars, extractVars, mergeVars, graphVars, redactVars, orderVars>>
notRedact ==
    <<chunkVars, extractVars, linkerVars, mergeVars, graphVars, threadVars,
      orderVars>>
notOrder ==
    <<chunkVars, extractVars, linkerVars, mergeVars, graphVars, threadVars,
      redactVars>>

\* Python's None
None == "None"

(***************************************************************************)
(* str operations                                                          *)
(***************************************************************************)
NL == "\n"

Max(a, b) == IF a >= b THEN a ELSE b

LowerLetters ==
    <<"a", "b", "c", "d", "e", "f", "g", "h", "i", "j", "k", "l", "m",
      "n", "o", "p", "q", "r", "s", "t", "u", "v", "w", "x", "y", "z">>
UpperLetters ==
    <<"A", "B", "C", "D", "E", "F", "G", "H", "I", "J", "K", "L", "M",
      "N", "O", "P", "Q", "R", "S", "T", "U", "V", "W", "X", "Y", "Z">>

LowerChar(c) ==
    IF \E i \in 1..Len(UpperLetters) : UpperLetters[i] = c
    THEN LowerLetters[CHOOSE i \in 1..Len(UpperLetters) : UpperLetters[i] = c]
    ELSE c

UpperChar(c) ==
    IF \E i \in 1..Len(LowerLetters) : LowerLetters[i] = c
    THEN UpperLetters[CHOOSE i \in 1..Len(LowerLetters) : LowerLetters[i] = c]
    ELSE c

\* A run of ExtractMaxChars letters is written as the one symbol RunChar, so
\* that a text longer than the extractor's chunk size stays short.
ExtractMaxChars == 8000
RunChar == "#"

\* len(s)
RECURSIVE StrLen(_)
StrLen(s) ==
    IF s = <<>> THEN 0
    ELSE (IF Head(s) = RunChar THEN ExtractMaxChars ELSE 1) + StrLen(Tail(s))

\* str.lower(), str.upper()
Lower(s) == [i \in 1..Len(s) |-> LowerChar(s[i])]
Upper(s) == [i \in 1..Len(s) |-> UpperChar(s[i])]

IsSpace(c) == c \in {" ", NL}

\* str.strip(): leading and trailing whitespace removed
Strip(s) ==
    LET keep == {i \in 1..Len(s) : ~IsSpace(s[i])}
    IN  IF keep = {} THEN <<>>
        ELSE LET lo == CHOOSE i \in keep : \A j \in keep : i <= j
                 hi == CHOOSE i \in keep : \A j \in keep : i >= j
             IN  SubSeq(s, lo, hi)

\* a in b, for str
IsSubstring(a, b) ==
    \E i \in 0..(Len(b) - Len(a)) : SubSeq(b, i + 1, i + Len(a)) = a

\* position of the first "\n\n" in s, 0 when there is none
FirstSep(s) ==
    LET at == {i \in 1..(Len(s) - 1) : s[i] = NL /\ s[i + 1] = NL}
    IN  IF at = {} THEN 0 ELSE CHOOSE i \in at : \A j \in at : i <= j

\* text.split('\n\n')
RECURSIVE Split(_)
Split(s) ==
    LET i == FirstSep(s)
    IN  IF i = 0 THEN <<s>>
        ELSE <<SubSeq(s, 1, i - 1)>> \o Split(SubSeq(s, i + 2, Len(s)))

\* '\n\n'.join(parts)
RECURSIVE Join(_)
Join(parts) ==
    IF Len(parts) = 0 THEN <<>>
    ELSE IF Len(parts) = 1 THEN parts[1]
    ELSE parts[1] \o <<NL, NL>> \o Join(Tail(parts))

(***************************************************************************)
(* EntityExtractor._chunk_text                                             *)
(***************************************************************************)
MaxTextLen == 6
MaxChars == 6

TextsOfLen(n) == [1..n -> {"a", NL}]
Texts == UNION {TextsOfLen(n) : n \in 0..MaxTextLen}

\* the length of a paragraph with no separator counted
ParaLenNoSep(para) == StrLen(para)

\* para_len = len(para) + 2
ParaLen(para) == StrLen(para) + 2

\* the size test alone, also for an empty current_chunk
MustFlushEager(current_len, para_len, max_chars, current_chunk) ==
    current_len + para_len > max_chars

\* current_len + para_len > max_chars and current_chunk
MustFlush(current_len, para_len, max_chars, current_chunk) ==
    current_len + para_len > max_chars /\ current_chunk # <<>>

\* the for loop over paragraphs from index k on, and the final flush
RECURSIVE ChunkLoop(_, _, _, _, _, _)
ChunkLoop(paragraphs, k, chunks, current_chunk, current_len, max_chars) ==
    IF k > Len(paragraphs)
    THEN IF current_chunk # <<>> THEN Append(chunks, Join(current_chunk))
         ELSE chunks
    ELSE LET para == paragraphs[k]
             para_len == ParaLen(para)
         IN  IF MustFlush(current_len, para_len, max_chars, current_chunk)
             THEN ChunkLoop(paragraphs, k + 1,
                            Append(chunks, Join(current_chunk)),
                            <<para>>, para_len, max_chars)
             ELSE ChunkLoop(paragraphs, k + 1, chunks,
                            Append(current_chunk, para),
                            current_len + para_len, max_chars)

\* line 217: the text fits in one chunk
Fits(text, max_chars) == StrLen(text) <= max_chars

_chunk_text(text, max_chars) ==
    IF Fits(text, max_chars) THEN <<text>>
    ELSE ChunkLoop(Split(text), 1, <<>>, <<>>, 0, max_chars)

InitChunkIdle ==
    /\ ch_text = <<>>
    /\ ch_max = 0
    /\ ch_chunks = <<>>
    /\ ch_done = FALSE

InitChunk ==
    /\ ch_text \in Texts
    /\ ch_max \in -1..MaxChars
    /\ ch_chunks = <<>>
    /\ ch_done = FALSE

ChunkText ==
    /\ ~ch_done
    /\ ch_chunks' = _chunk_text(ch_text, ch_max)
    /\ ch_done' = TRUE
    /\ UNCHANGED <<ch_text, ch_max>>
    /\ UNCHANGED notChunk

(***************************************************************************)
(* models.EntityType: a str enum, each member a NAME with a lower-case     *)
(* value.  EntityType(v) looks a member up by value.                        *)
(***************************************************************************)
EntityTypeTable ==
    <<
       [name  |-> <<"P", "E", "R", "S", "O", "N">>,
        value |-> <<"p", "e", "r", "s", "o", "n">>],
       [name  |-> <<"O", "R", "G", "A", "N", "I", "Z", "A", "T", "I", "O", "N">>,
        value |-> <<"o", "r", "g", "a", "n", "i", "z", "a", "t", "i", "o", "n">>],
       [name  |-> <<"L", "O", "C", "A", "T", "I", "O", "N">>,
        value |-> <<"l", "o", "c", "a", "t", "i", "o", "n">>],
       [name  |-> <<"D", "A", "T", "E">>,
        value |-> <<"d", "a", "t", "e">>],
       [name  |-> <<"M", "O", "N", "E", "Y">>,
        value |-> <<"m", "o", "n", "e", "y">>],
       [name  |-> <<"D", "O", "C", "U", "M", "E", "N", "T", "_", "I", "D">>,
        value |-> <<"d", "o", "c", "u", "m", "e", "n", "t", "_", "i", "d">>],
       [name  |-> <<"P", "H", "O", "N", "E">>,
        value |-> <<"p", "h", "o", "n", "e">>],
       [name  |-> <<"E", "M", "A", "I", "L">>,
        value |-> <<"e", "m", "a", "i", "l">>],
       [name  |-> <<"A", "D", "D", "R", "E", "S", "S">>,
        value |-> <<"a", "d", "d", "r", "e", "s", "s">>]
    >>

\* a member is written by its name
EntityTypeNames == {EntityTypeTable[i].name : i \in 1..Len(EntityTypeTable)}
PERSON == EntityTypeTable[1].name
ORGANIZATION == EntityTypeTable[2].name
LOCATION == EntityTypeTable[3].name

HasValue(v) == \E i \in 1..Len(EntityTypeTable) : EntityTypeTable[i].value = v

\* EntityType(v) for a v that is some member's value (ValueError otherwise)
EntityTypeOf(v) ==
    EntityTypeTable[CHOOSE i \in 1..Len(EntityTypeTable) :
                        EntityTypeTable[i].value = v].name

(***************************************************************************)
(* EntityExtractor._extract_chunk, from the backend's response on.         *)
(* A dict is a function on the keys it has; int | None is <<>> for None    *)
(* and <<n>> for n; a confidence is in tenths.                              *)
(***************************************************************************)
DictGet(d, key, default) == IF key \in DOMAIN d THEN d[key] ELSE default

NoInt == <<>>
SomeInt(n) == <<n>>

\* float(e.get('confidence', 0.5))
DefaultConfidence == 5

JohnSmith == <<"J", "o", "h", "n", " ", "S", "m", "i", "t", "h">>
AcmeCorp == <<"A", "c", "m", "e", " ", "C", "o", "r", "p">>
Widget == <<"W", "I", "D", "G", "E", "T">>

\* a "type" that is a JSON number: it has no upper()
NonStringType == <<"7 (int)">>

\* the entity dicts a response is made of
EntityDicts ==
    { [type |-> PERSON, raw_text |-> JohnSmith, normalized |-> JohnSmith,
       confidence |-> 9],
      [type |-> ORGANIZATION, raw_text |-> AcmeCorp],
      [type |-> Lower(PERSON), raw_text |-> Lower(JohnSmith),
       normalized |-> JohnSmith, confidence |-> 7],
      [type |-> Widget, raw_text |-> AcmeCorp, confidence |-> 9],
      [raw_text |-> JohnSmith, confidence |-> 9],
      [type |-> NonStringType, raw_text |-> JohnSmith] }

MaxEntities == 2

EntityLists == UNION {[1..n -> EntityDicts] : n \in 0..MaxEntities}

Relationship ==
    [source |-> JohnSmith, target |-> AcmeCorp, relation |-> "works_for"]

\* what json.loads gives for the {...} block of a response
DataObjects ==
    {[entities |-> es] : es \in EntityLists}
    \cup {[entities |-> es, relationships |-> <<Relationship>>] :
            es \in EntityLists}
    \cup {[relationships |-> <<Relationship>>]}

\* The response text is a sequence of segments: prose without braces, a
\* lone "{", a lone "}", or the text of a JSON object (a well-formed {...}
\* block, data being what json.loads gives for it).
TextSeg == [kind |-> "text"]
OpenSeg == [kind |-> "open"]
CloseSeg == [kind |-> "close"]
ObjectSeg(d) == [kind |-> "object", data |-> d]

\* the objects met inside surrounding text
EmbeddedObjects ==
    { [entities |-> <<>>, relationships |-> <<Relationship>>],
      [entities |-> <<>>] }

MaxSegments == 2

EmbeddedContents ==
    UNION {[1..n -> {TextSeg, OpenSeg, CloseSeg}
                      \cup {ObjectSeg(d) : d \in EmbeddedObjects}] :
             n \in 0..MaxSegments}

\* the response texts: a JSON object alone, and objects, prose and braces
\* in every order
Contents == {<<ObjectSeg(d)>> : d \in DataObjects} \cup EmbeddedContents

EmptyData == [entities |-> <<>>, relationships |-> <<>>]

\* json.loads("{}")
EmptyObject == [key \in {} |-> <<>>]

HasOpen(seg) == seg.kind \in {"open", "object"}
HasClose(seg) == seg.kind \in {"close", "object"}

\* re.search(r'\{[\s\S]*\}', content): from the first "{" to the last "}"
\* of the text, <<>> when there is no "{" with a "}" after it
JsonMatch(content) ==
    LET opens == {i \in 1..Len(content) : HasOpen(content[i])}
        closes == {j \in 1..Len(content) : HasClose(content[j])}
    IN  IF opens = {} THEN <<>>
        ELSE LET lo == CHOOSE i \in opens : \A k \in opens : i <= k
                 after == {j \in closes :
                              j > lo \/ (j = lo
                                            /\ content[lo].kind = "object")}
             IN  IF after = {} THEN <<>>
                 ELSE LET hi == CHOOSE j \in after : \A k \in after : k <= j
                      IN  SubSeq(content, lo, hi)

\* lines 183-191: json.loads takes a single object, or "{}"; of anything
\* else it raises JSONDecodeError, which gives the empty data
ParseContent(content) ==
    LET match == JsonMatch(content)
    IN  IF Len(match) = 1 /\ match[1].kind = "object" THEN match[1].data
        ELSE IF match = <<OpenSeg, CloseSeg>> THEN EmptyObject
        ELSE EmptyData

\* EntityType(e['type'].upper()) succeeds
TypeAccepted(e) == HasValue(Upper(e.type))

\* lines 201-208
MakeEntity(e, page_number) ==
    [entity_type     |-> EntityTypeOf(Upper(e.type)),
     raw_text        |-> DictGet(e, "raw_text", <<>>),
     normalized_text |-> DictGet(e, "normalized", DictGet(e, "raw_text", <<>>)),
     confidence      |-> DictGet(e, "confidence", DefaultConfidence),
     page_number     |-> page_number,
     metadata        |-> <<>>]

\* lines 194-208: the loop over data.get('entities', []) from index k on;
\* e['type'] of a dict without the key raises KeyError out of the loop, and
\* upper() of a type that is no string raises AttributeError
RECURSIVE ConvertEntities(_, _, _, _)
ConvertEntities(dicts, k, page_number, entities) ==
    IF k > Len(dicts) THEN [exc |-> None, entities |-> entities]
    ELSE LET e == dicts[k]
         IN  IF "type" \notin DOMAIN e
             THEN [exc |-> "KeyError", entities |-> <<>>]
             ELSE IF e.type = NonStringType
             THEN [exc |-> "AttributeError", entities |-> <<>>]
             ELSE IF ~TypeAccepted(e)
             THEN ConvertEntities(dicts, k + 1, page_number, entities)
             ELSE ConvertEntities(dicts, k + 1, page_number,
                                  Append(entities, MakeEntity(e, page_number)))

\* lines 182-213: the value returned, or the exception raised
_extract_chunk(content, page_number) ==
    LET data == ParseContent(content)
        conv == ConvertEntities(DictGet(data, "entities", <<>>), 1,
                                page_number, <<>>)
    IN  [exc           |-> conv.exc,
         entities      |-> conv.entities,
         relationships |-> IF conv.exc = None
                           THEN DictGet(data, "relationships", <<>>)
                           ELSE <<>>]
(***************************************************************************)
(* EntityExtractor._merge_entities                                         *)
(***************************************************************************)
MergeKey(e) == <<e.entity_type, Lower(e.normalized_text)>>

\* the keys of by_normalized, in insertion order
RECURSIVE MergeKeys(_, _, _)
MergeKeys(entities, k, keys) ==
    IF k > Len(entities) THEN keys
    ELSE LET key == MergeKey(entities[k])
         IN  IF \E i \in 1..Len(keys) : keys[i] = key
             THEN MergeKeys(entities, k + 1, keys)
             ELSE MergeKeys(entities, k + 1, Append(keys, key))

MergeGroup(entities, key) == SelectSeq(entities, LAMBDA e : MergeKey(e) = key)

\* the last of the largest
BestOfLast(group) ==
    group[CHOOSE i \in 1..Len(group) :
            /\ \A j \in 1..Len(group) : group[j].confidence <= group[i].confidence
            /\ \A j \in (i + 1)..Len(group) :
                  group[j].confidence < group[i].confidence]

\* the first of the group
BestOfFirst(group) == group[1]

\* max(group, key=lambda e: e.confidence): the first of the largest
BestOf(group) ==
    group[CHOOSE i \in 1..Len(group) :
            /\ \A j \in 1..Len(group) : group[j].confidence <= group[i].confidence
            /\ \A j \in 1..(i - 1) : group[j].confidence < group[i].confidence]

\* set(e.page_number for e in group if e.page_number)
PagesOf(group) ==
    {group[i].page_number[1] :
        i \in {j \in 1..Len(group) : /\ group[j].page_number # NoInt
                                     /\ group[j].page_number[1] # 0}}

\* the count added to the one the object carries
MergedEntityAccumulating(group) ==
    LET best == BestOf(group)
    IN  [best EXCEPT !.metadata =
            [key \in DOMAIN best.metadata \cup {"occurrence_count", "pages"} |->
                IF key = "occurrence_count"
                THEN DictGet(best.metadata, "occurrence_count", 0) + Len(group)
                ELSE IF key = "pages" THEN PagesOf(group)
                ELSE best.metadata[key]]]

MergedEntity(group) ==
    LET best == BestOf(group)
    IN  [best EXCEPT !.metadata =
            [key \in DOMAIN best.metadata \cup {"occurrence_count", "pages"} |->
                IF key = "occurrence_count" THEN Len(group)
                ELSE IF key = "pages" THEN PagesOf(group)
                ELSE best.metadata[key]]]

_merge_entities(entities) ==
    LET keys == MergeKeys(entities, 1, <<>>)
    IN  [i \in 1..Len(keys) |-> MergedEntity(MergeGroup(entities, keys[i]))]

\* entities[i] is the object max() picks in its group
IsBestAt(entities, i) ==
    \A j \in 1..Len(entities) :
        MergeKey(entities[j]) = MergeKey(entities[i]) =>
            /\ entities[j].confidence <= entities[i].confidence
            /\ j < i => entities[j].confidence < entities[i].confidence

\* lines 254-257 write into best.metadata: the objects of the list given,
\* as the call leaves them
AfterMerge(entities) ==
    [i \in 1..Len(entities) |->
        IF IsBestAt(entities, i)
        THEN MergedEntity(MergeGroup(entities, MergeKey(entities[i])))
        ELSE entities[i]]

\* the entities of the chunks of a document, as _extract_chunk makes them
MergePool ==
    { [entity_type |-> PERSON, raw_text |-> <<"A", "l">>,
       normalized_text |-> <<"A", "l">>, confidence |-> 5,
       page_number |-> SomeInt(1), metadata |-> <<>>],
      [entity_type |-> PERSON, raw_text |-> <<"A", "L">>,
       normalized_text |-> <<"A", "L">>, confidence |-> 9,
       page_number |-> SomeInt(2), metadata |-> <<>>],
      [entity_type |-> PERSON, raw_text |-> <<"a", "l">>,
       normalized_text |-> <<"a", "l">>, confidence |-> 9,
       page_number |-> NoInt, metadata |-> <<>>],
      [entity_type |-> ORGANIZATION, raw_text |-> <<"A", "l">>,
       normalized_text |-> <<"A", "l">>, confidence |-> 5,
       page_number |-> SomeInt(0), metadata |-> <<>>],
      [entity_type |-> PERSON, raw_text |-> <<"B", "o">>,
       normalized_text |-> <<"B", "o">>, confidence |-> 7,
       page_number |-> SomeInt(1), metadata |-> <<>>],
      [entity_type |-> PERSON, raw_text |-> <<"A", "l">>,
       normalized_text |-> <<"A", "l">>, confidence |-> 5,
       page_number |-> SomeInt(2), metadata |-> <<>>] }

MaxMergeLen == 3

MergeInputs == UNION {[1..n -> MergePool] : n \in 0..MaxMergeLen}

InitMergeIdle ==
    /\ mg_given = <<>>
    /\ mg_entities = <<>>
    /\ mg_merged = <<>>
    /\ mg_before = <<>>
    /\ mg_call = "none"

InitMerge ==
    /\ mg_given \in MergeInputs
    /\ mg_entities = mg_given
    /\ mg_merged = <<>>
    /\ mg_before = <<>>
    /\ mg_call = "none"

\* merged = self._merge_entities(all_entities), line 96
MergeList ==
    /\ mg_call = "none"
    /\ mg_merged' = _merge_entities(mg_entities)
    /\ mg_entities' = AfterMerge(mg_entities)
    /\ mg_before' = mg_merged
    /\ mg_call' = "list"
    /\ UNCHANGED mg_given
    /\ UNCHANGED notMerge

\* _merge_entities once more on the same list
MergeListAgain ==
    /\ mg_call = "list"
    /\ mg_merged' = _merge_entities(mg_entities)
    /\ mg_entities' = AfterMerge(mg_entities)
    /\ mg_before' = mg_merged
    /\ mg_call' = "again"
    /\ UNCHANGED mg_given
    /\ UNCHANGED notMerge

\* _merge_entities on the list it returned: the objects of that list are
\* objects of the list given, and are written into again
MergeOutput ==
    /\ mg_call = "list"
    /\ mg_merged' = _merge_entities(mg_merged)
    /\ mg_entities' =
          [i \in 1..Len(mg_entities) |->
              IF IsBestAt(mg_entities, i)
              THEN MergedEntity(<<mg_entities[i]>>)
              ELSE mg_entities[i]]
    /\ mg_before' = mg_merged
    /\ mg_call' = "output"
    /\ UNCHANGED mg_given
    /\ UNCHANGED notMerge

(***************************************************************************)
(* EntityExtractor.extract: the chunks, one _extract_chunk per chunk, the  *)
(* merge.  The summary is text built from the result and is left out.       *)
(***************************************************************************)
MaxDocLen == 3

DocTexts == UNION {[1..n -> {"a", NL, RunChar}] : n \in 0..MaxDocLen}
PageLists == {<<>>, <<0, 1>>}

\* the providers _get_client knows (lines 59-64), and one it does not
RecognizedProviders == {"anthropic", "openai"}
Providers == RecognizedProviders \cup {"bogus"}

\* an extractor made with the defaults of __init__ (lines 48, 52-55)
InitExtractIdle ==
    /\ ex_pc = "idle"
    /\ ex_provider = "anthropic"
    /\ ex_client = None
    /\ ex_text = <<>>
    /\ ex_pages = <<>>
    /\ ex_chunks = <<>>
    /\ ex_i = 0
    /\ ex_response = <<>>
    /\ ex_chunk_result = [exc |-> None, entities |-> <<>>,
                          relationships |-> <<>>]
    /\ all_entities = <<>>
    /\ all_relationships = <<>>
    /\ backend_calls = 0
    /\ ex_return = [entities |-> <<>>, relationships |-> <<>>,
                    metadata |-> <<>>]

\* no EntityExtractor made yet
InitExtractNew ==
    /\ ex_pc = "new"
    /\ ex_provider = None
    /\ ex_client = None
    /\ ex_text = <<>>
    /\ ex_pages = <<>>
    /\ ex_chunks = <<>>
    /\ ex_i = 0
    /\ ex_response = <<>>
    /\ ex_chunk_result = [exc |-> None, entities |-> <<>>,
                          relationships |-> <<>>]
    /\ all_entities = <<>>
    /\ all_relationships = <<>>
    /\ backend_calls = 0
    /\ ex_return = [entities |-> <<>>, relationships |-> <<>>,
                    metadata |-> <<>>]

\* lines 46-55: __init__ stores its arguments and returns
Construct(provider) ==
    /\ ex_pc = "new"
    /\ ex_provider' = provider
    /\ ex_client' = None
    /\ ex_pc' = "idle"
    /\ UNCHANGED <<ex_text, ex_pages, ex_chunks, ex_i, ex_response,
                   ex_chunk_result, all_entities, all_relationships,
                   backend_calls, ex_return>>
    /\ UNCHANGED notExtract

\* lines 79-82
Extract(text, page_numbers) ==
    /\ ex_pc = "idle"
    /\ ex_text' = text
    /\ ex_pages' = page_numbers
    /\ ex_chunks' = _chunk_text(text, ExtractMaxChars)
    /\ ex_i' = 0
    /\ all_entities' = <<>>
    /\ all_relationships' = <<>>
    /\ ex_pc' = "chunks"
    /\ UNCHANGED <<ex_response, ex_chunk_result, backend_calls, ex_return,
                   ex_provider, ex_client>>
    /\ UNCHANGED notExtract

\* page_numbers[i] if page_numbers and i < len(page_numbers) else None
PageNum(page_numbers, i) ==
    IF page_numbers # <<>> /\ i < Len(page_numbers)
    THEN SomeInt(page_numbers[i + 1]) ELSE NoInt

\* lines 84-93, one iteration: the backend answers with content
ExtractChunk(content) ==
    /\ ex_pc = "chunks"
    /\ ex_i < Len(ex_chunks)
    /\ ex_provider \in RecognizedProviders
    /\ ex_client' = ex_provider
    /\ backend_calls' = backend_calls + 1
    /\ ex_response' = content
    /\ LET result == _extract_chunk(content, PageNum(ex_pages, ex_i))
       IN  /\ ex_chunk_result' = result
           /\ IF result.exc # None
              THEN /\ ex_pc' = "raised"
                   /\ UNCHANGED <<ex_i, all_entities, all_relationships>>
              ELSE /\ ex_pc' = ex_pc
                   /\ ex_i' = ex_i + 1
                   /\ all_entities' = all_entities \o result.entities
                   /\ all_relationships' =
                          all_relationships \o result.relationships
    /\ UNCHANGED <<ex_text, ex_pages, ex_chunks, ex_return, ex_provider>>
    /\ UNCHANGED notExtract

\* lines 57-67 reached from line 174: _get_client raises ValueError for a
\* provider it does not know, in the first chunk, before any backend call
GetClientRaises ==
    /\ ex_pc = "chunks"
    /\ ex_i < Len(ex_chunks)
    /\ ex_provider \notin RecognizedProviders
    /\ ex_chunk_result' = [exc |-> "ValueError", entities |-> <<>>,
                           relationships |-> <<>>]
    /\ ex_pc' = "raised"
    /\ UNCHANGED <<ex_text, ex_pages, ex_chunks, ex_i, ex_response,
                   all_entities, all_relationships, backend_calls, ex_return,
                   ex_provider, ex_client>>
    /\ UNCHANGED notExtract

\* lines 168-180: the backend call raises, and extract with it
BackendRaises ==
    /\ ex_pc = "chunks"
    /\ ex_i < Len(ex_chunks)
    /\ ex_provider \in RecognizedProviders
    /\ ex_client' = ex_provider
    /\ backend_calls' = backend_calls + 1
    /\ ex_chunk_result' = [exc |-> "BackendError", entities |-> <<>>,
                           relationships |-> <<>>]
    /\ ex_pc' = "raised"
    /\ UNCHANGED <<ex_text, ex_pages, ex_chunks, ex_i, ex_response,
                   all_entities, all_relationships, ex_return, ex_provider>>
    /\ UNCHANGED notExtract

\* lines 95-114
ExtractReturn ==
    /\ ex_pc = "chunks"
    /\ ex_i = Len(ex_chunks)
    /\ ex_return' = [entities      |-> _merge_entities(all_entities),
                     relationships |-> all_relationships,
                     metadata      |-> [chunks_processed |-> Len(ex_chunks),
                                        total_chars |-> StrLen(ex_text)]]
    /\ ex_pc' = "done"
    /\ UNCHANGED <<ex_text, ex_pages, ex_chunks, ex_i, ex_response,
                   ex_chunk_result, all_entities, all_relationships,
                   backend_calls, ex_provider, ex_client>>
    /\ UNCHANGED notExtract

(***************************************************************************)
(* EntityLinker.  canonical_entities is the dict in insertion order, an id *)
(* is the number of the uuid4() call that made it.  The ExtractedEntity     *)
(* objects handed to add_entities are numbered; metadata[m] is the metadata *)
(* dict of object m, which add_entities writes to.                          *)
(***************************************************************************)
Mentions ==
    << [entity_type |-> PERSON, raw_text |-> <<"A", "l">>, normalized_text |-> <<"A", "l">>,
        confidence |-> 5],
       [entity_type |-> PERSON, raw_text |-> <<"A", "l", "a", "b", "a", "m", "a">>,
        normalized_text |-> <<"A", "l", "a", "b", "a", "m", "a">>, confidence |-> 7],
       [entity_type |-> LOCATION, raw_text |-> <<"A", "l", "a", "b", "a", "m", "a">>,
        normalized_text |-> <<"A", "l", "a", "b", "a", "m", "a">>, confidence |-> 5],
       [entity_type |-> PERSON, raw_text |-> <<"A", "L", "A", "B", "A", "M", "A">>,
        normalized_text |-> <<"a", "l", "a", "b", "a", "m", "a">>, confidence |-> 8],
       [entity_type |-> PERSON, raw_text |-> <<"A", "l", "a", "b", "a", "m", "a", "n">>,
        normalized_text |-> <<"A", "l", "a", "b", "a", "m", "a", "n">>, confidence |-> 9],
       [entity_type |-> PERSON, raw_text |-> <<" ", "A", "l">>, normalized_text |-> <<" ", "A", "l">>,
        confidence |-> 5],
       [entity_type |-> PERSON, raw_text |-> <<"B", "a", "m", "a">>, normalized_text |-> <<"B", "a", "m", "a">>,
        confidence |-> 5],
       [entity_type |-> PERSON, raw_text |-> <<"A", "l", "a", "b">>, normalized_text |-> <<"A", "l", "a", "b">>,
        confidence |-> 7] >>

MentionIds == 1..Len(Mentions)
Docs == {"doc1", "doc2"}

\* the number of entities add_entities is given in all
MaxMentions == 3

\* line 313
Normalized(entity) == Strip(Lower(entity.normalized_text))

\* a scan that looks at canonicals of every type
TypeBlind(canonical, entity) == TRUE

\* line 317, negated
TypeMatches(canonical, entity) == canonical.type = entity.entity_type

\* the comparison with the canonical's name as stored, not lower-cased
ExactMatchCaseSensitive(canonical, normalized) ==
    canonical.normalized = normalized

\* line 321
ExactMatch(canonical, normalized) == Lower(canonical.normalized) = normalized

\* containment with only one of the two lengths above 3
FuzzyMatchEitherLong(canonical, normalized) ==
    LET can_norm == Lower(canonical.normalized)
    IN  /\ IsSubstring(normalized, can_norm) \/ IsSubstring(can_norm, normalized)
        /\ StrLen(normalized) > 3 \/ StrLen(can_norm) > 3

\* lines 327-329
FuzzyMatch(canonical, normalized) ==
    LET can_norm == Lower(canonical.normalized)
    IN  /\ IsSubstring(normalized, can_norm) \/ IsSubstring(can_norm, normalized)
        /\ StrLen(normalized) > 3 /\ StrLen(can_norm) > 3

\* an exact merge that leaves the confidence, and one that leaves the aliases
MergeExactAliasOnly(canonical, entity) ==
    [canonical EXCEPT !.aliases = @ \cup {entity.raw_text}]
MergeExactConfidenceOnly(canonical, entity) ==
    [canonical EXCEPT !.confidence = Max(@, entity.confidence)]

\* an exact merge that also takes the name of the mention merged
MergeExactRenaming(canonical, entity) ==
    [canonical EXCEPT !.aliases = @ \cup {entity.raw_text},
                      !.confidence = Max(@, entity.confidence),
                      !.normalized = entity.normalized_text]

\* lines 322-323
MergeExact(canonical, entity) ==
    [canonical EXCEPT !.aliases = @ \cup {entity.raw_text},
                      !.confidence = Max(@, entity.confidence)]

\* a fuzzy merge that raises the confidence as the exact merge does
MergeFuzzyRaising(canonical, entity) ==
    [canonical EXCEPT !.aliases = @ \cup {entity.raw_text},
                      !.confidence = Max(@, entity.confidence)]

\* line 330
MergeFuzzy(canonical, entity) ==
    [canonical EXCEPT !.aliases = @ \cup {entity.raw_text}]

\* lines 336-343
NewCanonical(can_id, entity, entity_metadata) ==
    [id         |-> can_id,
     type       |-> entity.entity_type,
     normalized |-> entity.normalized_text,
     aliases    |-> {entity.raw_text},
     confidence |-> entity.confidence,
     first_seen |-> DictGet(entity_metadata, "source_doc", None)]

\* lines 316-331: the scan from position k on; the position and the branch
\* that returns, position 0 when the loop runs out
\* a scan in which the last canonical that qualifies wins
ScanLast(canonicals, k, entity) ==
    LET hits == {i \in k..Len(canonicals) :
                    /\ TypeMatches(canonicals[i], entity)
                    /\ \/ ExactMatch(canonicals[i], Normalized(entity))
                       \/ FuzzyMatch(canonicals[i], Normalized(entity))}
        at == CHOOSE i \in hits : \A j \in hits : j <= i
    IN  IF hits = {} THEN [at |-> 0, path |-> "create"]
        ELSE [at |-> at,
              path |-> IF ExactMatch(canonicals[at], Normalized(entity))
                       THEN "exact" ELSE "fuzzy"]

RECURSIVE Scan(_, _, _)
Scan(canonicals, k, entity) ==
    IF k > Len(canonicals) THEN [at |-> 0, path |-> "create"]
    ELSE IF ~TypeMatches(canonicals[k], entity)
    THEN Scan(canonicals, k + 1, entity)
    ELSE IF ExactMatch(canonicals[k], Normalized(entity))
    THEN [at |-> k, path |-> "exact"]
    ELSE IF FuzzyMatch(canonicals[k], Normalized(entity))
    THEN [at |-> k, path |-> "fuzzy"]
    ELSE Scan(canonicals, k + 1, entity)

\* a merge that writes the alias into every canonical of the dict
FindOrCreateTouchingAll(canonicals, entity, entity_metadata, fresh_id) ==
    LET hit == Scan(canonicals, 1, entity)
    IN  IF hit.path = "create"
        THEN [canonicals |-> Append(canonicals,
                                    NewCanonical(fresh_id, entity, entity_metadata)),
              can_id |-> fresh_id, path |-> "create"]
        ELSE [canonicals |->
                  [i \in 1..Len(canonicals) |->
                      IF i = hit.at /\ hit.path = "exact"
                      THEN MergeExact(canonicals[i], entity)
                      ELSE MergeFuzzy(canonicals[i], entity)],
              can_id |-> canonicals[hit.at].id, path |-> hit.path]

\* lines 310-344: the dict afterwards, the id returned, the branch taken
_find_or_create_canonical(canonicals, entity, entity_metadata, fresh_id) ==
    LET hit == Scan(canonicals, 1, entity)
    IN  IF hit.path = "exact"
        THEN [canonicals |-> [canonicals EXCEPT ![hit.at] = MergeExact(@, entity)],
              can_id |-> canonicals[hit.at].id, path |-> "exact"]
        ELSE IF hit.path = "fuzzy"
        THEN [canonicals |-> [canonicals EXCEPT ![hit.at] = MergeFuzzy(@, entity)],
              can_id |-> canonicals[hit.at].id, path |-> "fuzzy"]
        ELSE [canonicals |-> Append(canonicals,
                                    NewCanonical(fresh_id, entity, entity_metadata)),
              can_id |-> fresh_id, path |-> "create"]

\* lines 307-308
SetMetadata(entity_metadata, canonical_id, source_doc_id) ==
    [key \in DOMAIN entity_metadata \cup {"canonical_id", "source_doc"} |->
        IF key = "canonical_id" THEN canonical_id
        ELSE IF key = "source_doc" THEN source_doc_id
        ELSE entity_metadata[key]]

NoCall == [entity |-> 0, can_id |-> 0, path |-> "none", source_doc_id |-> None]

InitLinker ==
    /\ canonical_entities = <<>>
    /\ uuid_count = 0
    /\ metadata = [m \in MentionIds |-> <<>>]
    /\ cur_doc = None
    /\ nprocessed = 0
    /\ last = NoCall
    /\ resolved = {}

\* add_entities(entities, source_doc_id) is entered; the entities of the list
\* are taken one at a time by AddEntity
AddEntitiesCall(source_doc_id) ==
    /\ cur_doc = None
    /\ nprocessed < MaxMentions
    /\ cur_doc' = source_doc_id
    /\ UNCHANGED <<canonical_entities, uuid_count, metadata, nprocessed, last,
                   resolved>>
    /\ UNCHANGED notLinker

\* lines 305-308, one iteration of the loop, for the object m
AddEntity(m) ==
    /\ cur_doc # None
    /\ nprocessed < MaxMentions
    /\ LET r == _find_or_create_canonical(canonical_entities, Mentions[m],
                                          metadata[m], uuid_count + 1)
       IN  /\ canonical_entities' = r.canonicals
           /\ uuid_count' = IF r.path = "create" THEN uuid_count + 1
                            ELSE uuid_count
           /\ metadata' = [metadata EXCEPT
                             ![m] = SetMetadata(@, r.can_id, cur_doc)]
           /\ last' = [entity |-> m, can_id |-> r.can_id, path |-> r.path,
                       source_doc_id |-> cur_doc]
           /\ resolved' = resolved \cup
                  {[entity |-> m, can_id |-> r.can_id, path |-> r.path]}
    /\ nprocessed' = nprocessed + 1
    /\ UNCHANGED cur_doc
    /\ UNCHANGED notLinker

\* the list is exhausted and add_entities returns
AddEntitiesReturn ==
    /\ cur_doc # None
    /\ cur_doc' = None
    /\ UNCHANGED <<canonical_entities, uuid_count, metadata, nprocessed, last,
                   resolved>>
    /\ UNCHANGED notLinker

(***************************************************************************)
(* EntityLinker.link_entities and export_graph.  The calls are made by the *)
(* one thread that calls add_entities, so between two calls of it.          *)
(***************************************************************************)
\* the mention objects and the document of the graph specification
GraphMentionIds == {2, 3, 4, 5}
GraphDocs == {"doc1"}

\* (source_id, target_id): two ids add_entities gives out, both ways round,
\* and an id (0) that is the id of no canonical
LinkEnds == {<<1, 2>>, <<2, 1>>, <<0, 1>>}

\* ConfidenceLevel.CONFIRMED
CONFIRMED == "CONFIRMED"

\* the number of link_entities calls
MaxLinks == 2

NoLinkArgs ==
    [source_id |-> 0, target_id |-> 0, relation |-> "", confidence |-> "",
     evidence |-> ""]

InitGraph ==
    /\ links = <<>>
    /\ link_calls = 0
    /\ link_args = NoLinkArgs
    /\ graph_taken = FALSE
    /\ graph_entities = <<>>
    /\ graph_links = <<>>
    /\ graph_at_call = [entities |-> <<>>, links |-> <<>>]

\* a list that takes an edge only when it does not hold it yet
AppendLinkOnce(link_list, edge) ==
    IF \E i \in 1..Len(link_list) : link_list[i] = edge
    THEN link_list ELSE Append(link_list, edge)

\* self.links.append({...}), lines 355-361
AppendLink(link_list, edge) == Append(link_list, edge)

\* lines 346-361; the 'links' list of a dict export_graph returned is
\* self.links itself, and takes the edge with it
LinkEntities(source_id, target_id, relation, confidence, evidence) ==
    /\ cur_doc = None
    /\ link_calls < MaxLinks
    /\ LET edge == [source     |-> source_id,
                    target     |-> target_id,
                    relation   |-> relation,
                    confidence |-> confidence,
                    evidence   |-> evidence]
       IN  /\ links' = AppendLink(links, edge)
           /\ graph_links' = IF graph_taken THEN AppendLink(links, edge)
                             ELSE graph_links
    /\ link_calls' = link_calls + 1
    /\ link_args' = [source_id |-> source_id, target_id |-> target_id,
                     relation |-> relation, confidence |-> confidence,
                     evidence |-> evidence]
    /\ UNCHANGED <<graph_taken, graph_entities, graph_at_call>>
    /\ UNCHANGED linkerVars
    /\ UNCHANGED notGraph

\* e['type'].value
ValueOf(entity_type) ==
    EntityTypeTable[CHOOSE i \in 1..Len(EntityTypeTable) :
                        EntityTypeTable[i].name = entity_type].value

\* lines 366-375: a new list of new dicts, list(e['aliases']) a copy
ExportedEntities(canonicals) ==
    [i \in 1..Len(canonicals) |->
        [id         |-> canonicals[i].id,
         type       |-> ValueOf(canonicals[i].type),
         name       |-> canonicals[i].normalized,
         aliases    |-> canonicals[i].aliases,
         confidence |-> canonicals[i].confidence]]

\* lines 363-377; 'links': self.links is the linker's own list
ExportGraph ==
    /\ cur_doc = None
    /\ graph_taken' = TRUE
    /\ graph_entities' = ExportedEntities(canonical_entities)
    /\ graph_links' = links
    /\ graph_at_call' = [entities |-> ExportedEntities(canonical_entities),
                         links    |-> links]
    /\ UNCHANGED <<links, link_calls, link_args>>
    /\ UNCHANGED linkerVars
    /\ UNCHANGED notGraph

(***************************************************************************)
(* _find_or_create_canonical called by two threads on one linker, with no  *)
(* lock.  A thread can be switched out between two turns of the loop and    *)
(* between the loop and the insert; one turn of the loop is one step.  The  *)
(* iterator of canonical_entities.items() raises RuntimeError when the dict *)
(* has changed size since the iterator was made.                            *)
(***************************************************************************)
Threads == {1, 2}

\* the mention objects the threads are given: "Al", "Alabama", " Al"
ThreadMentionIds == {1, 2, 6}

\* the linker the threads start on: a new one, or one that has resolved one
\* mention (LOCATION "Alabama", PERSON "Bama")
ThreadLinkers ==
    {<<>>} \cup {<<NewCanonical(1, Mentions[m], <<>>)>> : m \in {3, 7}}

Running(t) == th_pc[t] \in {"scan", "create"}

InitThreadsIdle ==
    /\ th_pc = [t \in Threads |-> "idle"]
    /\ th_entity = [t \in Threads |-> 0]
    /\ th_k = [t \in Threads |-> 0]
    /\ th_size = [t \in Threads |-> 0]
    /\ th_ret = [t \in Threads |-> 0]
    /\ th_created = 0
    /\ overlapped = FALSE
    /\ both_scanned = FALSE

\* lines 313-316: the call is entered and the iterator is made
ThreadCall(t, m) ==
    /\ th_pc[t] = "idle"
    /\ th_pc' = [th_pc EXCEPT ![t] = "scan"]
    /\ th_entity' = [th_entity EXCEPT ![t] = m]
    /\ th_k' = [th_k EXCEPT ![t] = 0]
    /\ th_size' = [th_size EXCEPT ![t] = Len(canonical_entities)]
    /\ overlapped' = (overlapped \/ \E u \in Threads \ {t} : Running(u))
    /\ UNCHANGED <<th_ret, th_created, both_scanned>>
    /\ UNCHANGED linkerVars
    /\ UNCHANGED notThread

\* lines 316-331, one turn of the loop: the iterator raises, or runs out, or
\* gives the next canonical, which is skipped or merged into
ThreadScan(t) ==
    /\ th_pc[t] = "scan"
    /\ IF Len(canonical_entities) # th_size[t]
       THEN /\ th_pc' = [th_pc EXCEPT ![t] = "raised"]
            /\ UNCHANGED <<canonical_entities, th_k, th_ret, both_scanned>>
       ELSE IF th_k[t] = Len(canonical_entities)
       THEN /\ th_pc' = [th_pc EXCEPT ![t] = "create"]
            /\ both_scanned' =
                  (both_scanned \/ \E u \in Threads \ {t} : th_pc[u] = "create")
            /\ UNCHANGED <<canonical_entities, th_k, th_ret>>
       ELSE LET k == th_k[t] + 1
                canonical == canonical_entities[k]
                entity == Mentions[th_entity[t]]
            IN  IF ~TypeMatches(canonical, entity)
                THEN /\ th_k' = [th_k EXCEPT ![t] = k]
                     /\ UNCHANGED <<canonical_entities, th_pc, th_ret,
                                    both_scanned>>
                ELSE IF ExactMatch(canonical, Normalized(entity))
                THEN /\ canonical_entities' =
                           [canonical_entities EXCEPT
                               ![k] = MergeExact(@, entity)]
                     /\ th_ret' = [th_ret EXCEPT ![t] = canonical.id]
                     /\ th_pc' = [th_pc EXCEPT ![t] = "done"]
                     /\ UNCHANGED <<th_k, both_scanned>>
                ELSE IF FuzzyMatch(canonical, Normalized(entity))
                THEN /\ canonical_entities' =
                           [canonical_entities EXCEPT
                               ![k] = MergeFuzzy(@, entity)]
                     /\ th_ret' = [th_ret EXCEPT ![t] = canonical.id]
                     /\ th_pc' = [th_pc EXCEPT ![t] = "done"]
                     /\ UNCHANGED <<th_k, both_scanned>>
                ELSE /\ th_k' = [th_k EXCEPT ![t] = k]
                     /\ UNCHANGED <<canonical_entities, th_pc, th_ret,
                                    both_scanned>>
    /\ UNCHANGED <<th_entity, th_size, th_created, overlapped>>
    /\ UNCHANGED <<uuid_count, metadata, cur_doc, nprocessed, last, resolved>>
    /\ UNCHANGED notThread

\* lines 333-344: the loop found nothing, a canonical is made and inserted
ThreadCreate(t) ==
    /\ th_pc[t] = "create"
    /\ uuid_count' = uuid_count + 1
    /\ canonical_entities' =
          Append(canonical_entities,
                 NewCanonical(uuid_count + 1, Mentions[th_entity[t]],
                              metadata[th_entity[t]]))
    /\ th_ret' = [th_ret EXCEPT ![t] = uuid_count + 1]
    /\ th_pc' = [th_pc EXCEPT ![t] = "done"]
    /\ th_created' = th_created + 1
    /\ UNCHANGED <<th_entity, th_k, th_size, overlapped, both_scanned>>
    /\ UNCHANGED <<metadata, cur_doc, nprocessed, last, resolved>>
    /\ UNCHANGED notThread

(***************************************************************************)
(* RedactionDetector (src/openfoia/pipeline/ocr.py).  analyze is called    *)
(* without a pdf_path, so visual_redaction_count is None.                   *)
(***************************************************************************)
\* r'\(c\)' of a pattern
EscapedGroup(c) == <<"\\", "(", c, "\\", ")">>

\* EXEMPTION_PATTERNS, in the order of the dict
EXEMPTION_PATTERNS ==
    << [pattern |-> EscapedGroup("b") \o EscapedGroup("1"),
        description |-> "National security"],
       [pattern |-> EscapedGroup("b") \o EscapedGroup("2"),
        description |-> "Internal personnel rules"],
       [pattern |-> EscapedGroup("b") \o EscapedGroup("3"),
        description |-> "Statutory exemption"],
       [pattern |-> EscapedGroup("b") \o EscapedGroup("4"),
        description |-> "Trade secrets"],
       [pattern |-> EscapedGroup("b") \o EscapedGroup("5"),
        description |-> "Deliberative process"],
       [pattern |-> EscapedGroup("b") \o EscapedGroup("6"),
        description |-> "Personal privacy"],
       [pattern |-> EscapedGroup("b") \o EscapedGroup("7") \o EscapedGroup("A"),
        description |-> "Law enforcement - interference"],
       [pattern |-> EscapedGroup("b") \o EscapedGroup("7") \o EscapedGroup("C"),
        description |-> "Law enforcement - privacy"],
       [pattern |-> EscapedGroup("b") \o EscapedGroup("7") \o EscapedGroup("D"),
        description |-> "Law enforcement - confidential source"],
       [pattern |-> EscapedGroup("b") \o EscapedGroup("7") \o EscapedGroup("E"),
        description |-> "Law enforcement - techniques"],
       [pattern |-> EscapedGroup("b") \o EscapedGroup("7") \o EscapedGroup("F"),
        description |-> "Law enforcement - safety"] >>

\* pattern.replace('\\', ''); it is also the text the pattern matches, every
\* backslash of these patterns escaping a parenthesis
RemoveBackslashes(pattern) == SelectSeq(pattern, LAMBDA c : c # "\\")

\* re.IGNORECASE: the text has the literal at pos, letter case apart
MatchesAt(literal, text, pos) ==
    \A i \in 1..Len(literal) :
        LowerChar(text[pos + i - 1]) = LowerChar(literal[i])

\* a findall that tells the letter cases apart
FindAllCaseSensitive(literal, text, pos) ==
    Cardinality({p \in pos..(Len(text) - Len(literal) + 1) :
                    SubSeq(text, p, p + Len(literal) - 1) = literal})

\* len(re.findall(pattern, text, re.IGNORECASE)) from position pos on: the
\* matches from left to right, the search going on after each match
RECURSIVE FindAll(_, _, _)
FindAll(literal, text, pos) ==
    IF pos + Len(literal) - 1 > Len(text) THEN 0
    ELSE IF MatchesAt(literal, text, pos)
    THEN 1 + FindAll(literal, text, pos + Len(literal))
    ELSE FindAll(literal, text, pos + 1)

\* lines 266-274, the loop from pattern k on
RECURSIVE ExemptionsFound(_, _, _)
ExemptionsFound(text, k, exemptions_found) ==
    IF k > Len(EXEMPTION_PATTERNS) THEN exemptions_found
    ELSE LET entry == EXEMPTION_PATTERNS[k]
             count == FindAll(RemoveBackslashes(entry.pattern), text, 1)
         IN  IF count > 0
             THEN ExemptionsFound(text, k + 1,
                      Append(exemptions_found,
                             [code        |-> RemoveBackslashes(entry.pattern),
                              description |-> entry.description,
                              count       |-> count]))
             ELSE ExemptionsFound(text, k + 1, exemptions_found)

RECURSIVE SumCounts(_)
SumCounts(entries) ==
    IF entries = <<>> THEN 0
    ELSE Head(entries).count + SumCounts(Tail(entries))

\* lines 262-286, pdf_path None
analyze(text) ==
    LET exemptions_found == ExemptionsFound(text, 1, <<>>)
    IN  [exemptions_cited          |-> exemptions_found,
         total_exemption_citations |-> SumCounts(exemptions_found),
         visual_redaction_count    |-> None]

\* what the texts are made of: citations of both letter cases, of codes in
\* the table and not in it
Group(c) == <<"(", c, ")">>
RedactTokens ==
    {Group("b"), Group("B"), Group("1"), Group("6"), Group("7"), Group("a"),
     Group("9")}

MaxTokens == 4

RECURSIVE Concat(_)
Concat(tokens) ==
    IF tokens = <<>> THEN <<>> ELSE Head(tokens) \o Concat(Tail(tokens))

RedactTexts ==
    {Concat(tokens) : tokens \in UNION {[1..n -> RedactTokens] : n \in 0..MaxTokens}}

NoAnalysis ==
    [exemptions_cited |-> <<>>, total_exemption_citations |-> 0,
     visual_redaction_count |-> None]

InitRedactIdle ==
    /\ rd_text = <<>>
    /\ rd_result = NoAnalysis
    /\ rd_done = FALSE

InitRedact ==
    /\ rd_text \in RedactTexts
    /\ rd_result = NoAnalysis
    /\ rd_done = FALSE

Analyze ==
    /\ ~rd_done
    /\ rd_result' = analyze(rd_text)
    /\ rd_done' = TRUE
    /\ UNCHANGED rd_text
    /\ UNCHANGED notRedact

(***************************************************************************)
(* The specifications: the linker, the chunker alone, the extractor, the   *)
(* merge, the linker with its links, the linker under two threads, the      *)
(* redaction detector.                                                      *)
(***************************************************************************)
(***************************************************************************)
(* add_entities on a fresh EntityLinker, as a function of the list it is   *)
(* given.  uuid4() is a draw: uuids is the sequence of the ids the calls    *)
(* give out, in the order of the calls.                                     *)
(***************************************************************************)
\* mentions of one type, PERSON: "Al", "Alabama", "alabama", "Alabaman",
\* "Bama" and "Alab"
OrderMentionIds == {1, 2, 4, 5, 7, 8}

\* the number of mentions of a list
MaxOrderLen == 3

\* the lists of distinct mentions of one type
IsInjective(seq) ==
    \A i, j \in 1..Len(seq) : seq[i] = seq[j] => i = j
Orders ==
    {o \in UNION {[1..n -> OrderMentionIds] : n \in 2..MaxOrderLen} :
        IsInjective(o)}

\* the lists of the same mentions, in any order
Reorderings(o) ==
    {o2 \in [1..Len(o) -> {o[i] : i \in 1..Len(o)}] : IsInjective(o2)}

\* what uuid4() gives out in MaxOrderLen calls: distinct ids, here rising
\* or falling
UuidDraws == {[k \in 1..MaxOrderLen |-> k],
              [k \in 1..MaxOrderLen |-> MaxOrderLen + 1 - k]}

\* lines 303-308 on the linker that holds canonicals and has written
\* entity_metadata: the loop over the list entities
RECURSIVE add_entities(_, _, _, _, _)
add_entities(canonicals, entity_metadata, entities, source_doc_id, uuids) ==
    IF entities = <<>>
    THEN [canonical_entities |-> canonicals, metadata |-> entity_metadata]
    ELSE LET m == Head(entities)
             r == _find_or_create_canonical(canonicals, Mentions[m],
                      entity_metadata[m], uuids[Len(canonicals) + 1])
         IN  add_entities(r.canonicals,
                          [entity_metadata EXCEPT
                              ![m] = SetMetadata(@, r.can_id, source_doc_id)],
                          Tail(entities), source_doc_id, uuids)

NoLinking == [canonical_entities |-> <<>>,
              metadata |-> [m \in MentionIds |-> <<>>]]

InitOrderIdle ==
    /\ od_orders = <<<<>>, <<>>>>
    /\ od_results = <<NoLinking, NoLinking>>
    /\ od_done = FALSE

InitOrder ==
    /\ od_orders \in UNION {{<<o1, o2>> : o2 \in Reorderings(o1)} :
                              o1 \in Orders}
    /\ od_results = <<NoLinking, NoLinking>>
    /\ od_done = FALSE

\* EntityLinker() (lines 299-301) and add_entities(entities, "doc1"), once
\* for each of the two lists
LinkBothOrders(uuids1, uuids2) ==
    /\ ~od_done
    /\ od_results' =
           <<add_entities(<<>>, [m \in MentionIds |-> <<>>], od_orders[1],
                          "doc1", uuids1),
             add_entities(<<>>, [m \in MentionIds |-> <<>>], od_orders[2],
                          "doc1", uuids2)>>
    /\ od_done' = TRUE
    /\ UNCHANGED od_orders
    /\ UNCHANGED notOrder

Init ==
    /\ InitLinker /\ InitChunkIdle /\ InitExtractIdle /\ InitMergeIdle
    /\ InitGraph /\ InitThreadsIdle /\ InitRedactIdle /\ InitOrderIdle
Next ==
    \/ \E source_doc_id \in Docs : AddEntitiesCall(source_doc_id)
    \/ \E m \in MentionIds : AddEntity(m)
    \/ AddEntitiesReturn
Spec == Init /\ [][Next]_vars

ChunkInit ==
    /\ InitChunk /\ InitLinker /\ InitExtractIdle /\ InitMergeIdle
    /\ InitGraph /\ InitThreadsIdle /\ InitRedactIdle /\ InitOrderIdle
ChunkNext == ChunkText
ChunkSpec == ChunkInit /\ [][ChunkNext]_vars

ExtractInit ==
    /\ InitExtractNew /\ InitLinker /\ InitChunkIdle /\ InitMergeIdle
    /\ InitGraph /\ InitThreadsIdle /\ InitRedactIdle /\ InitOrderIdle
ExtractNext ==
    \/ \E provider \in Providers : Construct(provider)
    \/ \E text \in DocTexts, page_numbers \in PageLists :
           Extract(text, page_numbers)
    \/ \E content \in Contents : ExtractChunk(content)
    \/ BackendRaises
    \/ GetClientRaises
    \/ ExtractReturn
ExtractSpec == ExtractInit /\ [][ExtractNext]_vars

MergeInit ==
    /\ InitMerge /\ InitLinker /\ InitChunkIdle /\ InitExtractIdle
    /\ InitGraph /\ InitThreadsIdle /\ InitRedactIdle /\ InitOrderIdle
MergeNext ==
    \/ MergeList
    \/ MergeListAgain
    \/ MergeOutput
MergeSpec == MergeInit /\ [][MergeNext]_vars

GraphInit == Init
GraphNext ==
    \/ \E source_doc_id \in GraphDocs : AddEntitiesCall(source_doc_id)
    \/ \E m \in GraphMentionIds : AddEntity(m)
    \/ AddEntitiesReturn
    \/ \E ends \in LinkEnds :
           LinkEntities(ends[1], ends[2], "works_for", CONFIRMED, "memo")
    \/ ExportGraph
GraphSpec == GraphInit /\ [][GraphNext]_vars

ThreadInit ==
    /\ canonical_entities \in ThreadLinkers
    /\ uuid_count = Len(canonical_entities)
    /\ metadata = [m \in MentionIds |-> <<>>]
    /\ cur_doc = None
    /\ nprocessed = 0
    /\ last = NoCall
    /\ resolved = {}
    /\ InitThreadsIdle
    /\ InitChunkIdle /\ InitExtractIdle /\ InitMergeIdle /\ InitGraph
    /\ InitRedactIdle /\ InitOrderIdle
ThreadNext ==
    \/ \E t \in Threads, m \in ThreadMentionIds : ThreadCall(t, m)
    \/ \E t \in Threads : ThreadScan(t)
    \/ \E t \in Threads : ThreadCreate(t)
ThreadSpec == ThreadInit /\ [][ThreadNext]_vars

OrderInit ==
    /\ InitOrder
    /\ InitLinker /\ InitChunkIdle /\ InitExtractIdle /\ InitMergeIdle
    /\ InitGraph /\ InitThreadsIdle /\ InitRedactIdle
OrderNext ==
    \E uuids1, uuids2 \in UuidDraws : LinkBothOrders(uuids1, uuids2)
OrderSpec == OrderInit /\ [][OrderNext]_vars

RedactInit ==
    /\ InitRedact
    /\ InitLinker /\ InitChunkIdle /\ InitExtractIdle /\ InitMergeIdle
    /\ InitGraph /\ InitThreadsIdle /\ InitOrderIdle
RedactNext == Analyze
RedactSpec == RedactInit /\ [][RedactNext]_vars
(***************************************************************************)
(* The chunker                                                             *)
(***************************************************************************)
SplitChunk(chunks) == \E i \in 1..Len(chunks) : FirstSep(chunks[i]) # 0

\* C8: joining the chunks of _chunk_text(text, max_chars) in order with
\* "\n\n" gives text again, whether the text fitted in one chunk or was split.
C8_ChunkRoundTrip == ch_done => Join(ch_chunks) = ch_text

\* a text that did not fit, split into several chunks, one of them holding
\* more than one paragraph
C8_Witness ==
    /\ ch_done
    /\ ~Fits(ch_text, ch_max)
    /\ Len(ch_chunks) >= 2
    /\ SplitChunk(ch_chunks)

\* the paragraphs of the chunks, chunk after chunk
RECURSIVE ParagraphsOf(_)
ParagraphsOf(chunks) ==
    IF chunks = <<>> THEN <<>>
    ELSE Split(Head(chunks)) \o ParagraphsOf(Tail(chunks))

\* C9: a chunk is at most max_chars long, or it is one paragraph that is
\* itself longer than max_chars; the chunks hold the paragraphs of the text
\* whole and in order, and a paragraph longer than max_chars shares its chunk
\* with no other paragraph.
C9_ChunkSizes ==
    ch_done =>
        /\ \A i \in 1..Len(ch_chunks) :
              \/ StrLen(ch_chunks[i]) <= ch_max
              \/ /\ FirstSep(ch_chunks[i]) = 0
                 /\ StrLen(ch_chunks[i]) > ch_max
        /\ ParagraphsOf(ch_chunks) = Split(ch_text)
        /\ \A i \in 1..Len(ch_chunks) :
              LET paras == Split(ch_chunks[i])
              IN  (\E k \in 1..Len(paras) : StrLen(paras[k]) > ch_max)
                      => Len(paras) = 1

\* a split with an oversized paragraph next to a chunk that is within the size
C9_Witness ==
    /\ ch_done
    /\ Len(ch_chunks) >= 2
    /\ \E i \in 1..Len(ch_chunks) : StrLen(ch_chunks[i]) > ch_max
    /\ \E i \in 1..Len(ch_chunks) :
          ch_chunks[i] # <<>> /\ StrLen(ch_chunks[i]) <= ch_max

\* C11: no chunk returned by _chunk_text is the empty string, whatever the
\* text: the empty text, a text that begins with a separator, one with
\* consecutive separators before a paragraph that does not fit.
C11_NoEmptyChunk ==
    ch_done => \A i \in 1..Len(ch_chunks) : ch_chunks[i] # <<>>

(***************************************************************************)
(* The extractor                                                           *)
(***************************************************************************)
\* C10: for the empty text the chunk list is empty and extract() makes no
\* backend call.
C10_EmptyTextNoChunks ==
    (ex_pc # "idle" /\ ex_text = <<>>) =>
        (ex_chunks = <<>> /\ backend_calls = 0)

\* the entity dicts of a response that name a member of the vocabulary
NamesMember(e) == Upper(e.type) \in EntityTypeNames

\* C1: of a response that lists entities, _extract_chunk returns exactly the
\* entities whose declared type names a member of the vocabulary, in response
\* order; an entity of another type is left out and costs no other entity.
C1_RecognizedEntitiesKept ==
    (/\ ex_chunk_result.exc \notin {"BackendError", "ValueError"}
     /\ Len(ex_response) = 1
     /\ ex_response[1].kind = "object"
     /\ "entities" \in DOMAIN ex_response[1].data
     /\ \A k \in 1..Len(ex_response[1].data.entities) :
            /\ "type" \in DOMAIN ex_response[1].data.entities[k]
            /\ ex_response[1].data.entities[k].type # NonStringType)
    => LET kept == SelectSeq(ex_response[1].data.entities, NamesMember)
       IN  /\ ex_chunk_result.exc = None
           /\ Len(ex_chunk_result.entities) = Len(kept)
           /\ \A k \in 1..Len(kept) :
                 /\ ex_chunk_result.entities[k].entity_type = Upper(kept[k].type)
                 /\ ex_chunk_result.entities[k].raw_text = kept[k].raw_text

\* C12: whatever the response text, _extract_chunk returns a result: no
\* exception of the conversion of the response reaches the caller of
\* extract(), a record without a type, or with a type that is no string,
\* included.
C12_ResponseNeverRaises ==
    ex_chunk_result.exc \in {None, "BackendError", "ValueError"}

\* C13: when the backend call for a chunk of a document of several chunks
\* fails, extract() is not ended by it: the chunk counts as empty and the
\* extraction goes on to its return.
C13_BackendFailureSoft ==
    (Len(ex_chunks) >= 2 /\ ex_chunk_result.exc = "BackendError")
        => ex_pc # "raised"

\* C23: a provider that is not one of the recognized ones is rejected when
\* the EntityExtractor is constructed: every extractor that __init__ returned
\* has a recognized provider, so that no extract() call and no chunk ever
\* sees another one.
C23_UnknownProviderRejected ==
    ex_pc # "new" => ex_provider \in RecognizedProviders

\* the places of a response where a well-formed {...} block starts
BlockStarts(content) ==
    {p \in 1..Len(content) :
        \/ content[p].kind = "object"
        \/ /\ content[p].kind = "open"
           /\ p < Len(content)
           /\ content[p + 1].kind = "close"}

\* what the first well-formed block of the response holds
FirstBlockData(content) ==
    LET p == CHOOSE q \in BlockStarts(content) :
                 \A r \in BlockStarts(content) : q <= r
    IN  IF content[p].kind = "object" THEN content[p].data ELSE EmptyObject

\* C14: of a response with a well-formed JSON object inside other text, the
\* result is taken from the first well-formed {...} block, whatever is
\* around it, braces after it included; of a response without any block the
\* result is empty.  (The blocks looked at list no entities, so that the
\* conversion of an entity plays no part.)
C14_FirstBlockUsed ==
    ex_chunk_result.exc \notin {"BackendError", "ValueError"} =>
        IF BlockStarts(ex_response) = {}
        THEN /\ ex_chunk_result.entities = <<>>
             /\ ex_chunk_result.relationships = <<>>
        ELSE LET data == FirstBlockData(ex_response)
             IN  DictGet(data, "entities", <<>>) = <<>> =>
                     /\ ex_chunk_result.exc = None
                     /\ ex_chunk_result.entities = <<>>
                     /\ ex_chunk_result.relationships =
                            DictGet(data, "relationships", <<>>)

(***************************************************************************)
(* The merge                                                               *)
(***************************************************************************)
\* the key the merge groups by
KeyOf(e) == <<e.entity_type, Lower(e.normalized_text)>>

\* the places of a list that hold an entity of the key
PlacesOf(entities, key) ==
    {i \in 1..Len(entities) : KeyOf(entities[i]) = key}

\* the same entity, its metadata apart
SameEntity(e1, e2) ==
    /\ e1.entity_type = e2.entity_type
    /\ e1.raw_text = e2.raw_text
    /\ e1.normalized_text = e2.normalized_text
    /\ e1.confidence = e2.confidence
    /\ e1.page_number = e2.page_number

\* C15: _merge_entities returns exactly one entity for every key of its
\* input; it is the member of the key's group with the largest confidence,
\* the earliest of them in input order, and its occurrence_count is the
\* number of input entities of the key.
C15_OnePerKey ==
    mg_call = "list" =>
        /\ \A i \in 1..Len(mg_given) :
              Cardinality(PlacesOf(mg_merged, KeyOf(mg_given[i]))) = 1
        /\ \A k \in 1..Len(mg_merged) :
              LET group == PlacesOf(mg_given, KeyOf(mg_merged[k]))
              IN  /\ \E i \in group :
                        /\ SameEntity(mg_merged[k], mg_given[i])
                        /\ \A j \in group :
                              /\ mg_given[j].confidence <= mg_given[i].confidence
                              /\ j < i => mg_given[j].confidence
                                              < mg_given[i].confidence
                  /\ mg_merged[k].metadata.occurrence_count = Cardinality(group)

\* two keys, one of them with a tie for the largest confidence between
\* members that differ, the later of which is not returned
C15_Witness ==
    /\ mg_call = "list"
    /\ Len(mg_merged) >= 2
    /\ \E i, j \in 1..Len(mg_given) :
          /\ i < j
          /\ KeyOf(mg_given[i]) = KeyOf(mg_given[j])
          /\ mg_given[i].confidence = mg_given[j].confidence
          /\ mg_given[i].raw_text # mg_given[j].raw_text
          /\ \E k \in 1..Len(mg_merged) :
                /\ SameEntity(mg_merged[k], mg_given[i])
                /\ mg_merged[k].metadata.occurrence_count >= 2

\* what the claim of order independence compares: key, confidence,
\* occurrence_count and pages of every merged entity
MergedSet(merged) ==
    {[key              |-> KeyOf(merged[k]),
      confidence       |-> merged[k].confidence,
      occurrence_count |-> merged[k].metadata.occurrence_count,
      pages            |-> merged[k].metadata.pages] : k \in 1..Len(merged)}

Permuted(entities, p) == [i \in 1..Len(entities) |-> entities[p[i]]]

\* C16: the merge of any permutation of a list has the keys of the merge of
\* the list, and for every key the same confidence, occurrence_count and
\* set of pages.
C16_OrderIndependent ==
    mg_call = "list" =>
        \A p \in Permutations(1..Len(mg_given)) :
            MergedSet(_merge_entities(Permuted(mg_given, p)))
                = MergedSet(mg_merged)

\* a group whose first member has neither the largest confidence nor the
\* page of the member that has it
C16_Witness ==
    /\ mg_call = "list"
    /\ \E i, j \in 1..Len(mg_given) :
          /\ i < j
          /\ KeyOf(mg_given[i]) = KeyOf(mg_given[j])
          /\ mg_given[i].confidence < mg_given[j].confidence
          /\ mg_given[i].page_number # mg_given[j].page_number
    /\ \E k \in 1..Len(mg_merged) :
          Cardinality(mg_merged[k].metadata.pages) >= 2

\* C17 as stated: the merge run again on the same list returns what it
\* returned, and the merge of its own output is that output, entity for
\* entity, occurrence_count and pages included.
C17_Idempotent ==
    mg_call \in {"again", "output"} => mg_merged = mg_before

\* C17 as the code has it: the merge run again on the same list returns
\* what it returned; the merge of its own output has the same entities in
\* the same order, each with occurrence_count 1 and, for pages, its own
\* page number alone (none when that is None or 0).
C17_IdempotentButMetadata ==
    /\ mg_call = "again" => mg_merged = mg_before
    /\ mg_call = "output" =>
          /\ Len(mg_merged) = Len(mg_before)
          /\ \A k \in 1..Len(mg_merged) :
                /\ SameEntity(mg_merged[k], mg_before[k])
                /\ mg_merged[k].metadata.occurrence_count = 1
                /\ mg_merged[k].metadata.pages =
                      IF mg_merged[k].page_number \in {NoInt, SomeInt(0)}
                      THEN {} ELSE {mg_merged[k].page_number[1]}

\* the merge of an output in which a group of three stood for two pages
C17_Witness ==
    /\ mg_call = "output"
    /\ \E k \in 1..Len(mg_before) :
          /\ mg_before[k].metadata.occurrence_count = 3
          /\ Cardinality(mg_before[k].metadata.pages) = 2
          /\ mg_merged[k].metadata.occurrence_count = 1
\* C28: the pages of a merged entity are the page numbers the members of
\* its group carry, each once, page 0 as any other; a member without a page
\* number gives none, and there is no other value.
C28_PagesOfGroup ==
    mg_call = "list" =>
        \A k \in 1..Len(mg_merged) :
            LET group == PlacesOf(mg_given, KeyOf(mg_merged[k]))
            IN  mg_merged[k].metadata.pages
                    = {mg_given[i].page_number[1] :
                          i \in {j \in group : mg_given[j].page_number # NoInt}}

\* the same for the groups without a member on page 0
C28_PagesOfGroupButZero ==
    mg_call = "list" =>
        \A k \in 1..Len(mg_merged) :
            LET group == PlacesOf(mg_given, KeyOf(mg_merged[k]))
            IN  (\A i \in group : mg_given[i].page_number # SomeInt(0)) =>
                    mg_merged[k].metadata.pages
                        = {mg_given[i].page_number[1] :
                              i \in {j \in group :
                                         mg_given[j].page_number # NoInt}}

(***************************************************************************)
(* The linker                                                              *)
(***************************************************************************)
CanonicalById(id) ==
    canonical_entities[CHOOSE i \in 1..Len(canonical_entities) :
                           canonical_entities[i].id = id]

IndexOfId(id) ==
    CHOOSE i \in 1..Len(canonical_entities) : canonical_entities[i].id = id

\* a step of add_entities has processed one more entity
Processed == nprocessed' = nprocessed + 1

\* the canonical has the entity's type and its lower-cased name is the
\* entity's lower-cased, trimmed normalized text
SameName(canonical, entity) ==
    /\ canonical.type = entity.entity_type
    /\ Lower(canonical.normalized) = Strip(Lower(entity.normalized_text))

SameNameAt(entity) ==
    {i \in 1..Len(canonical_entities) : SameName(canonical_entities[i], entity)}

\* C2: a canonical entity created by add_entities(entities, source_doc_id)
\* has first_seen = source_doc_id.
C2_FirstSeenIsSourceDoc ==
    last.path = "create" =>
        CanonicalById(last.can_id).first_seen = last.source_doc_id

\* C3: a candidate that has a same-type canonical of the same lower-cased
\* name is resolved to such a canonical by the exact branch; the fuzzy branch
\* returns only when there is no such canonical.
C3_ExactMatchPriority ==
    [][Processed =>
        LET exact == SameNameAt(Mentions[last'.entity])
        IN  /\ exact # {} =>
                /\ last'.path = "exact"
                /\ \E i \in exact : last'.can_id = canonical_entities[i].id
            /\ last'.path = "fuzzy" => exact = {}]_vars

\* the exact branch returned a canonical that is not the first of its type
C3_Witness ==
    /\ last.path = "exact"
    /\ \E j \in 1..(IndexOfId(last.can_id) - 1) :
          canonical_entities[j].type = Mentions[last.entity].entity_type

IsResolved(m) == "canonical_id" \in DOMAIN metadata[m]

\* C4: a mention is resolved to a canonical of its own type, and two mentions
\* of the same text and different types have different canonical ids.
C4_TypeIsolation ==
    /\ \A m \in MentionIds :
          IsResolved(m) =>
              CanonicalById(metadata[m].canonical_id).type
                  = Mentions[m].entity_type
    /\ \A m1, m2 \in MentionIds :
          (/\ IsResolved(m1) /\ IsResolved(m2)
           /\ Mentions[m1].normalized_text = Mentions[m2].normalized_text
           /\ Mentions[m1].entity_type # Mentions[m2].entity_type)
          => metadata[m1].canonical_id # metadata[m2].canonical_id

\* the same text was added as two types
C4_Witness ==
    \E m1, m2 \in MentionIds :
        /\ IsResolved(m1) /\ IsResolved(m2)
        /\ Mentions[m1].normalized_text = Mentions[m2].normalized_text
        /\ Mentions[m1].entity_type # Mentions[m2].entity_type

\* the confidences of the mentions resolved to the canonical id by one of
\* the branches in paths
ConfidencesInto(id, paths) ==
    {Mentions[r.entity].confidence :
        r \in {x \in resolved : x.can_id = id /\ x.path \in paths}}

SetMax(S) == CHOOSE x \in S : \A y \in S : y <= x

\* C5 as stated: the confidence of a canonical is the largest confidence of
\* all the mentions merged into it.
C5_ConfidenceIsMaxOfAll ==
    \A i \in 1..Len(canonical_entities) :
        canonical_entities[i].confidence =
            SetMax(ConfidencesInto(canonical_entities[i].id,
                                   {"create", "exact", "fuzzy"}))

\* C5: the confidence of a canonical is the largest confidence of the mention
\* that created it and of the mentions resolved to it by the exact branch.
C5_ConfidenceIsMaxOfExact ==
    \A i \in 1..Len(canonical_entities) :
        canonical_entities[i].confidence =
            SetMax(ConfidencesInto(canonical_entities[i].id,
                                   {"create", "exact"}))

\* a canonical raised by an exact merge and then given, by the fuzzy branch,
\* a mention of still higher confidence
C5_Witness ==
    \E i \in 1..Len(canonical_entities) :
        LET c == canonical_entities[i]
        IN  /\ c.confidence > SetMax(ConfidencesInto(c.id, {"create"}))
            /\ ConfidencesInto(c.id, {"fuzzy"}) # {}
            /\ c.confidence < SetMax(ConfidencesInto(c.id, {"fuzzy"}))

\* C6: a mention with a same-type canonical of the same lower-cased name adds
\* its raw_text to that canonical's aliases, makes its confidence the larger
\* of the two, gets its id, and no canonical is created.
C6_ExactMerge ==
    [][Processed =>
        LET m == last'.entity
            exact == SameNameAt(Mentions[m])
        IN  exact # {} =>
                \E i \in exact :
                    /\ Len(canonical_entities') = Len(canonical_entities)
                    /\ canonical_entities'[i].aliases =
                           canonical_entities[i].aliases
                               \cup {Mentions[m].raw_text}
                    /\ canonical_entities'[i].confidence =
                           Max(canonical_entities[i].confidence,
                               Mentions[m].confidence)
                    /\ last'.can_id = canonical_entities[i].id
                    /\ metadata'[m].canonical_id = canonical_entities[i].id]_vars

\* an exact merge that brought a new alias and a higher confidence
C6_Witness ==
    /\ last.path = "exact"
    /\ LET c == CanonicalById(last.can_id)
       IN  /\ c.confidence = Mentions[last.entity].confidence
           /\ c.confidence > SetMax(ConfidencesInto(c.id, {"create"}))
           /\ Mentions[last.entity].raw_text \in c.aliases
           /\ Cardinality(c.aliases) >= 2

\* C7: a mention whose lower-cased, trimmed normalized text has at most 3
\* characters gets a new canonical or a same-type canonical of that very
\* name; and a canonical whose lower-cased name has at most 3 characters is
\* returned only for a mention of that very name.
C7_ShortNeverFuzzy ==
    [][Processed =>
        LET e == Mentions[last'.entity]
            created == Len(canonical_entities') = Len(canonical_entities) + 1
        IN  /\ StrLen(Strip(Lower(e.normalized_text))) <= 3 =>
                \/ /\ created
                   /\ last'.can_id = canonical_entities'[Len(canonical_entities')].id
                \/ \E i \in SameNameAt(e) :
                       last'.can_id = canonical_entities[i].id
            /\ \A i \in 1..Len(canonical_entities) :
                  (/\ ~created
                   /\ last'.can_id = canonical_entities[i].id
                   /\ StrLen(Lower(canonical_entities[i].normalized)) <= 3)
                  => i \in SameNameAt(e)]_vars

\* a short mention got a canonical of its own although a longer same-type
\* canonical contains its text
C7_Witness ==
    /\ last.path = "create"
    /\ StrLen(Strip(Lower(Mentions[last.entity].normalized_text))) <= 3
    /\ \E i \in 1..Len(canonical_entities) :
          /\ canonical_entities[i].type = Mentions[last.entity].entity_type
          /\ canonical_entities[i].id # last.can_id
          /\ IsSubstring(Strip(Lower(Mentions[last.entity].normalized_text)),
                         Lower(canonical_entities[i].normalized))

\* C26: a fuzzy merge adds the mention's raw_text to the aliases of the
\* canonical matched and changes nothing else of it: the confidence stays
\* what it was, also when the mention's is higher, and so do the id, the
\* type, the normalized name and first_seen.
C26_FuzzyOnlyAliases ==
    [][(Processed /\ last'.path = "fuzzy") =>
          LET m == last'.entity
              i == IndexOfId(last'.can_id)
          IN  /\ i \in 1..Len(canonical_entities)
              /\ canonical_entities'[i].aliases
                     = canonical_entities[i].aliases \cup {Mentions[m].raw_text}
              /\ canonical_entities'[i].confidence
                     = canonical_entities[i].confidence
              /\ canonical_entities'[i].id = canonical_entities[i].id
              /\ canonical_entities'[i].type = canonical_entities[i].type
              /\ canonical_entities'[i].normalized
                     = canonical_entities[i].normalized
              /\ canonical_entities'[i].first_seen
                     = canonical_entities[i].first_seen]_vars

\* a fuzzy merge of a mention more confident than the canonical, which has
\* its raw_text as an alias now
C26_Witness ==
    /\ last.path = "fuzzy"
    /\ LET c == CanonicalById(last.can_id)
       IN  /\ Mentions[last.entity].confidence > c.confidence
           /\ Mentions[last.entity].raw_text \in c.aliases
           /\ Cardinality(c.aliases) >= 2

\* the groups a linking puts the mentions of a list into: the mentions of
\* one canonical id
Grouping(order, result) ==
    {{order[j] : j \in {j \in 1..Len(order) :
                           result.metadata[order[j]].canonical_id
                               = result.metadata[order[i]].canonical_id}} :
        i \in 1..Len(order)}

\* the place in the list of the first mention resolved to the canonical
CreatedAt(order, result, canonical) ==
    CHOOSE k \in 1..Len(order) :
        /\ result.metadata[order[k]].canonical_id = canonical.id
        /\ \A j \in 1..(k - 1) :
               result.metadata[order[j]].canonical_id # canonical.id

\* every mention of the list went to the first canonical, in creation order,
\* among those created before it that have its type and either its name or
\* a name that contains or is contained in it, both longer than 3; and it
\* made a canonical of its own when there was none
FirstMatchWins(order, result) ==
    LET cs == result.canonical_entities
    IN  \A k \in 1..Len(order) :
            LET entity == Mentions[order[k]]
                hits == {i \in 1..Len(cs) :
                            /\ CreatedAt(order, result, cs[i]) < k
                            /\ TypeMatches(cs[i], entity)
                            /\ \/ ExactMatch(cs[i], Normalized(entity))
                               \/ FuzzyMatch(cs[i], Normalized(entity))}
                can_id == result.metadata[order[k]].canonical_id
            IN  IF hits = {}
                THEN \E i \in 1..Len(cs) :
                         /\ cs[i].id = can_id
                         /\ CreatedAt(order, result, cs[i]) = k
                ELSE \E i \in hits :
                         /\ cs[i].id = can_id
                         /\ \A j \in hits : i <= j

\* C27: the canonicals are scanned in creation order and the first that
\* qualifies wins, so a list of mentions submitted to a fresh linker in one
\* order always gives the same grouping, whatever ids are drawn, while the
\* same mentions in another order can give another grouping.
C27_FirstMatchInCreationOrder ==
    od_done =>
        /\ FirstMatchWins(od_orders[1], od_results[1])
        /\ FirstMatchWins(od_orders[2], od_results[2])
        /\ od_orders[1] = od_orders[2] =>
               Grouping(od_orders[1], od_results[1])
                   = Grouping(od_orders[2], od_results[2])

\* the same mentions of one type in two orders, and two groupings
C27_Witness ==
    /\ od_done
    /\ od_orders[1] # od_orders[2]
    /\ Grouping(od_orders[1], od_results[1])
           # Grouping(od_orders[2], od_results[2])
    /\ \A i, j \in 1..Len(od_orders[1]) :
           Mentions[od_orders[1][i]].entity_type
               = Mentions[od_orders[1][j]].entity_type

\* a mention whose normalized text has white space at an end
Untrimmed(entity) ==
    Strip(entity.normalized_text) # entity.normalized_text

\* C29: a mention of the entity_type and the normalized_text of a mention
\* submitted before resolves to the canonical id the earlier one resolved
\* to, and makes no second canonical, whatever the text: white space at its
\* ends and 3 characters or fewer included.
C29_ResubmissionIdempotent ==
    \A r1, r2 \in resolved :
        (/\ Mentions[r1.entity].entity_type = Mentions[r2.entity].entity_type
         /\ Mentions[r1.entity].normalized_text
                = Mentions[r2.entity].normalized_text)
        => r1.can_id = r2.can_id

\* the same for the mentions without white space at the ends of their name
C29_ResubmissionIdempotentTrimmed ==
    \A r1, r2 \in resolved :
        (/\ Mentions[r1.entity].entity_type = Mentions[r2.entity].entity_type
         /\ Mentions[r1.entity].normalized_text
                = Mentions[r2.entity].normalized_text
         /\ ~Untrimmed(Mentions[r1.entity]))
        => r1.can_id = r2.can_id

\* C24: every alias of a canonical entity is the raw_text of a submitted
\* mention whose metadata canonical_id is the id of that canonical.
C24_AliasFromResolvedMention ==
    \A i \in 1..Len(canonical_entities) :
        \A alias \in canonical_entities[i].aliases :
            \E m \in MentionIds :
                /\ IsResolved(m)
                /\ metadata[m].canonical_id = canonical_entities[i].id
                /\ Mentions[m].raw_text = alias

\* the same, as long as no mention with white space around its name was
\* submitted
C24_AliasFromResolvedMentionTrimmed ==
    (\A m \in MentionIds : IsResolved(m) => ~Untrimmed(Mentions[m]))
        => C24_AliasFromResolvedMention

\* every alias is the raw_text of a mention that a call resolved to the
\* canonical, whatever the metadata of the mention says now
C24_AliasFromResolution ==
    \A i \in 1..Len(canonical_entities) :
        \A alias \in canonical_entities[i].aliases :
            \E r \in resolved :
                /\ r.can_id = canonical_entities[i].id
                /\ Mentions[r.entity].raw_text = alias

(***************************************************************************)
(* The links and the exported graph                                        *)
(***************************************************************************)
\* a step is a call of link_entities
LinkCalled == link_calls' = link_calls + 1

\* the edge a call with the arguments args is to record
EdgeOf(args) ==
    [source     |-> args.source_id,
     target     |-> args.target_id,
     relation   |-> args.relation,
     confidence |-> args.confidence,
     evidence   |-> args.evidence]

\* C18: every link_entities call puts exactly one edge, the one of its
\* arguments, at the end of the link list, also when the list holds the
\* same edge already or an id is the id of no canonical, and no mirrored
\* edge with it; the links recorded before keep their content and their
\* order, in every step, and the call leaves the canonical entities alone.
C18_LinkAppendOnly ==
    [][/\ LinkCalled =>
            /\ links' = Append(links, EdgeOf(link_args'))
            /\ canonical_entities' = canonical_entities
       /\ Len(links') >= Len(links)
       /\ \A i \in 1..Len(links) : links'[i] = links[i]]_vars

\* the same edge recorded twice, from an id that is the id of no canonical,
\* in a linker that has canonicals
C18_Witness ==
    /\ link_calls = 2
    /\ Len(links) = 2
    /\ links[1] = links[2]
    /\ canonical_entities # <<>>
    /\ \A i \in 1..Len(canonical_entities) :
          canonical_entities[i].id # links[2].source

\* C19: the entity list and the link list export_graph returned are, after
\* any add_entities and link_entities calls that follow, what they were
\* when the call returned.
C19_SnapshotUnchanged ==
    graph_taken =>
        /\ graph_entities = graph_at_call.entities
        /\ graph_links = graph_at_call.links

\* C25: the ids of the canonical entities are pairwise distinct; a canonical
\* entity is created with the type and the normalized_text of its mention,
\* casing kept; and whatever add_entities, link_entities or export_graph
\* call follows, it stays in the dict, at its place, with its id, its type
\* and its normalized name.
C25_IdentityStable ==
    [][/\ \A i, j \in 1..Len(canonical_entities') :
              canonical_entities'[i].id = canonical_entities'[j].id => i = j
       /\ Len(canonical_entities') >= Len(canonical_entities)
       /\ \A i \in 1..Len(canonical_entities) :
              /\ canonical_entities'[i].id = canonical_entities[i].id
              /\ canonical_entities'[i].type = canonical_entities[i].type
              /\ canonical_entities'[i].normalized
                     = canonical_entities[i].normalized
       /\ \A i \in (Len(canonical_entities) + 1)..Len(canonical_entities') :
              /\ canonical_entities'[i].type
                     = Mentions[last'.entity].entity_type
              /\ canonical_entities'[i].normalized
                     = Mentions[last'.entity].normalized_text]_vars

\* after an export with one canonical in it, a mention of another spelling
\* was merged into that canonical, a second canonical was created and a
\* link was recorded
C25_Witness ==
    /\ graph_taken
    /\ Len(graph_at_call.entities) = 1
    /\ Len(canonical_entities) = 2
    /\ canonical_entities[1].confidence > graph_at_call.entities[1].confidence
    /\ Cardinality(canonical_entities[1].aliases) = 2
    /\ Len(links) > Len(graph_at_call.links)

\* C30: the step of add_entities for one mention changes at most one
\* canonical entity, the one the mention is resolved to, or adds a single
\* new one, to which the mention is resolved; every other canonical entity
\* and the list of links are what they were, and the dict grows by one at
\* most.
C30_OneCanonicalPerMention ==
    [][Processed =>
          /\ links' = links
          /\ Len(canonical_entities') \in
                 {Len(canonical_entities), Len(canonical_entities) + 1}
          /\ \A i \in 1..Len(canonical_entities) :
                 canonical_entities[i].id # last'.can_id =>
                     canonical_entities'[i] = canonical_entities[i]
          /\ \A i \in (Len(canonical_entities) + 1)..Len(canonical_entities') :
                 canonical_entities'[i].id = last'.can_id]_vars

\* a mention was merged into the first of two canonicals, which has two
\* aliases now, while links are recorded
C30_Witness ==
    /\ Len(canonical_entities) = 2
    /\ last.path \in {"exact", "fuzzy"}
    /\ last.can_id = canonical_entities[1].id
    /\ Cardinality(canonical_entities[1].aliases) >= 2
    /\ links # <<>>

(***************************************************************************)
(* The linker under two threads                                            *)
(***************************************************************************)
\* both calls have returned, and they were for mentions of one type and one
\* normalized text
BothReturned ==
    /\ \A t \in Threads : th_pc[t] = "done"
    /\ Mentions[th_entity[1]].entity_type = Mentions[th_entity[2]].entity_type
    /\ Mentions[th_entity[1]].normalized_text
          = Mentions[th_entity[2]].normalized_text

\* the two calls resolved to two canonicals of one type and one name
TwoForOneName ==
    /\ th_ret[1] # th_ret[2]
    /\ \E i, j \in 1..Len(canonical_entities) :
          /\ i # j
          /\ canonical_entities[i].id = th_ret[1]
          /\ canonical_entities[j].id = th_ret[2]
          /\ canonical_entities[i].type = canonical_entities[j].type
          /\ canonical_entities[i].normalized = canonical_entities[j].normalized

\* C20: of two unserialized find-or-create calls for mentions of one type and
\* one normalized text, both of which finish their scan before either
\* inserts, two canonical entities of that name are left; of the same two
\* calls made one after the other, one canonical entity is left for the two,
\* the only one created.
C20_RaceElseOne ==
    BothReturned =>
        /\ both_scanned => (TwoForOneName /\ th_created = 2)
        /\ ~overlapped => (th_ret[1] = th_ret[2] /\ th_created <= 1)

\* the interleaving the claim names does happen
C20_RaceReached == BothReturned /\ both_scanned /\ TwoForOneName

\* the name has no white space around it, or is longer than three
\* characters without it
TrimmedOrLong(entity) ==
    \/ Strip(entity.normalized_text) = entity.normalized_text
    \/ StrLen(Strip(entity.normalized_text)) > 3

\* the same for the mentions whose name has no white space around it or is
\* longer than three characters: the only calls that, made one after the
\* other, leave two canonicals are those for the other names
C20_RaceElseOneTrimmed ==
    (BothReturned /\ TrimmedOrLong(Mentions[th_entity[1]])) =>
        /\ both_scanned => (TwoForOneName /\ th_created = 2)
        /\ ~overlapped => (th_ret[1] = th_ret[2] /\ th_created <= 1)

(***************************************************************************)
(* The redaction detector                                                  *)
(***************************************************************************)
CodeOf(digit) == Group("b") \o Group(digit)
SubCodeOf(letter) == CodeOf("7") \o Group(letter)

\* the codes of the pattern table, in its order
KnownCodes ==
    <<CodeOf("1"), CodeOf("2"), CodeOf("3"), CodeOf("4"), CodeOf("5"),
      CodeOf("6"), SubCodeOf("A"), SubCodeOf("C"), SubCodeOf("D"),
      SubCodeOf("E"), SubCodeOf("F")>>

\* the places of the text where the code stands, in any letter case
Cites(code, text) ==
    {p \in 1..(Len(text) - Len(code) + 1) :
        \A i \in 1..Len(code) :
            \/ text[p + i - 1] = code[i]
            \/ LowerChar(text[p + i - 1]) = code[i]
            \/ text[p + i - 1] = LowerChar(code[i])}

Cited(code) == Cites(code, rd_text) # {}

\* C21: analyze gives one entry for each pattern of the table that the text
\* matches, in any letter case, in the order of the table, with the code,
\* the description of the table and the number of matches; a pattern
\* without a match gives none, a text without any the empty list; the total
\* is the sum of the counts.
C21_OneEntryPerMatchedPattern ==
    rd_done =>
        LET cited == rd_result.exemptions_cited
            matched == SelectSeq(KnownCodes, Cited)
        IN  /\ Len(cited) = Len(matched)
            /\ \A k \in 1..Len(matched) :
                  /\ cited[k].code = matched[k]
                  /\ cited[k].count = Cardinality(Cites(matched[k], rd_text))
                  /\ \E j \in 1..Len(KnownCodes) :
                        /\ KnownCodes[j] = matched[k]
                        /\ cited[k].description
                              = EXEMPTION_PATTERNS[j].description
            /\ rd_result.total_exemption_citations =
                  Cardinality(UNION {{<<j, p>> : p \in Cites(KnownCodes[j], rd_text)} :
                                       j \in 1..Len(KnownCodes)})

\* "(B)(6)(b)(1)": two entries, in the order of the table and not of the
\* text, one of them for a citation in upper case
C21_Witness ==
    /\ rd_done
    /\ rd_text = Group("B") \o Group("6") \o Group("b") \o Group("1")
    /\ Len(rd_result.exemptions_cited) = 2
    /\ rd_result.exemptions_cited[1].code = CodeOf("1")
    /\ rd_result.exemptions_cited[2].code = CodeOf("6")
    /\ rd_result.total_exemption_citations = 2

\* the codes "(b)(1)" to "(b)(9)" and "(b)(7)(A)" to "(b)(7)(F)"
AllCodes ==
    {CodeOf(d) : d \in {"1", "2", "3", "4", "5", "6", "7", "8", "9"}}
    \cup {SubCodeOf(l) : l \in {"A", "B", "C", "D", "E", "F"}}

\* C22: a text that cites one of the codes "(b)(1)" to "(b)(9)" or
\* "(b)(7)(A)" to "(b)(7)(F)", in any letter case, gets an entry for that
\* code with a count of 1 or more.
C22_EveryCodeCovered ==
    rd_done =>
        \A code \in AllCodes :
            Cited(code) =>
                \E k \in 1..Len(rd_result.exemptions_cited) :
                    /\ rd_result.exemptions_cited[k].code = code
                    /\ rd_result.exemptions_cited[k].count >= 1
====
